---- MODULE Spec2Model ----
(***************************************************************************)
(* Model of config.py (ConfigManager) and firebase_client.py               *)
(* (FirebaseClient) of the autonomous evolutionary trading platform.       *)
(*                                                                         *)
(* One process: the module-level `config = ConfigManager()` runs at import *)
(* of config.py, then a FirebaseClient is constructed, and afterwards the  *)
(* instance's _safe_operation and config.get_exchange_config are called.   *)
(* time.sleep is a step of its own, so the states between two retry        *)
(* attempts are states of the model.                                       *)
(*                                                                         *)
(* Time: _initialize sleeps whole time units; _safe_operation sleeps       *)
(* multiples of 0.5, recorded here in HALF units (1 = 0.5 time units).     *)
(***************************************************************************)
EXTENDS Integers, Sequences, FiniteSets, TLC

VARIABLES
    pc,          \* position of the process
    env,         \* os.environ, restricted to the variables config.py reads
    configError, \* the ValueError raised by ConfigManager.__init__, or NoMsg
    exchanges,   \* ConfigManager.exchanges
    exchanges0,  \* history: exchanges as stored by __init__
    lookup,      \* outcome of the last get_exchange_config call
    apps,        \* firebase_admin._apps is non-empty
    regRuns,     \* history: executions of the registration step begun
    appRegs,     \* history: registrations completed by initialize_app
    client,      \* FirebaseClient.client
    attempt,     \* loop variable of the running retry loop
    initCalls,   \* history: calls of config.initialize_firebase
    initErrors,  \* history: the exception of each failed creation attempt
    initSleeps,  \* history: the delays slept by _initialize
    initResult,  \* how FirebaseClient.__init__ ended
    raised,      \* the exception that left _initialize
    created,     \* history: clients returned by a completed creation attempt
    opsStarted,  \* number of _safe_operation calls made so far
    opHandle,    \* history: self.client when the last _safe_operation began
    opCalls,     \* history: invocations of the operation in the last call
    opErrors,    \* history: the exception of each failed invocation
    opSleeps,    \* history: delays (half units) slept by the last call
    opOutcome,   \* how the last _safe_operation call ended
    opRaised     \* the exception that left the last _safe_operation call

vars == <<pc, env, configError, exchanges, exchanges0, lookup, apps, regRuns,
          appRegs, client, attempt, initCalls, initErrors, initSleeps, initResult,
          raised, created, opsStarted, opHandle, opCalls, opErrors, opSleeps,
          opOutcome, opRaised>>

configVars == <<env, configError, exchanges, exchanges0>>
initVars == <<apps, regRuns, appRegs, client, initCalls, initErrors, initSleeps,
              initResult, raised, created>>
opVars == <<opsStarted, opHandle, opCalls, opErrors, opSleeps, opOutcome,
           opRaised>>

----------------------------------------------------------------------------
(* Bounds *)

\* number of _safe_operation calls made on the instance
MaxOps == 2

----------------------------------------------------------------------------
(* Values *)

\* os.getenv of a variable that is not in the environment
Unset == "<unset>"
\* Python's None as the value of FirebaseClient.client
None == "None"
\* the client firestore.client() returns for the registered app
FirestoreClient == "firestore.Client"
\* a client object whose creation did not complete (no code path yields it)
PartialClient == "partial"

NoMsg == <<>>
NoError == [kind |-> "none", attempt |-> -1]
NotInitialized == [kind |-> "ConnectionError: Firestore client not initialized",
                   attempt |-> -1]
NoLookup == [status |-> "none", name |-> "", value |-> <<>>, msg |-> <<>>]

Range(s) == {s[i] : i \in 1..Len(s)}

RECURSIVE Sum(_)
Sum(s) == IF s = <<>> THEN 0 ELSE s[1] + Sum(Tail(s))

----------------------------------------------------------------------------
(* config.py *)

required_vars == <<"FIREBASE_PROJECT_ID">>

EnvNames == {"FIREBASE_PROJECT_ID", "BINANCE_API_KEY", "BINANCE_API_SECRET",
             "BINANCE_TESTNET", "COINBASE_API_KEY", "COINBASE_API_SECRET"}

\* the values each variable takes in the environments explored
EnvValues(v) ==
    CASE v = "FIREBASE_PROJECT_ID" -> {Unset, "", "proj"}
      [] v = "BINANCE_API_KEY"     -> {Unset, "bkey"}
      [] v = "BINANCE_API_SECRET"  -> {"bsecret"}
      [] v = "BINANCE_TESTNET"     -> {Unset, "TRUE", "false"}
      [] v = "COINBASE_API_KEY"    -> {"ckey"}
      [] v = "COINBASE_API_SECRET" -> {Unset, "csecret"}

Environments == {e \in [EnvNames -> {Unset, "", "proj", "bkey", "bsecret",
                                     "TRUE", "false", "ckey", "csecret"}] :
                    \A v \in EnvNames : e[v] \in EnvValues(v)}

\* os.getenv(var, default)
getenv(e, var, default) == IF e[var] = Unset THEN default ELSE e[var]

\* str.lower on the strings of the explored environments
lower(s) == CASE s = "TRUE" -> "true"
              [] s = "True" -> "true"
              [] OTHER      -> s

\* `not os.getenv(var)`: None and the empty string are falsy
NotGetenv_OnlyUnset(e, var) == e[var] = Unset
NotGetenv(e, var) == e[var] = Unset \/ e[var] = ""

\* missing = [var for var in required_vars if not os.getenv(var)]
missing(e) == SelectSeq(required_vars, LAMBDA var : NotGetenv(e, var))

\* error_msg = f"Missing required environment variables: {missing}"
error_msg(e) == <<"Missing required environment variables:", missing(e)>>

\* self.exchanges as built by ConfigManager.__init__
BuildExchanges(e) ==
    [n \in {"binance", "coinbase"} |->
        IF n = "binance"
        THEN [api_key |-> getenv(e, "BINANCE_API_KEY", ""),
              secret  |-> getenv(e, "BINANCE_API_SECRET", ""),
              testnet |-> (lower(getenv(e, "BINANCE_TESTNET", "true")) = "true")]
        ELSE [api_key |-> getenv(e, "COINBASE_API_KEY", ""),
              secret  |-> getenv(e, "COINBASE_API_SECRET", "")]]

\* the names get_exchange_config is called with
ExchangeNames == {"binance", "coinbase", "kraken", "Binance"}

get_exchange_config_Any(exs, exchange_name) ==
    IF exchange_name \notin DOMAIN exs
    THEN [status |-> "ok", name |-> exchange_name,
          value |-> exs["binance"], msg |-> <<>>]
    ELSE [status |-> "ok", name |-> exchange_name,
          value |-> exs[exchange_name], msg |-> <<>>]
get_exchange_config(exs, exchange_name) ==
    IF exchange_name \notin DOMAIN exs
    THEN [status |-> "ValueError", name |-> exchange_name, value |-> <<>>,
          msg |-> <<"Exchange", exchange_name, "not configured">>]
    ELSE [status |-> "ok", name |-> exchange_name,
          value |-> exs[exchange_name], msg |-> <<>>]

\* outcomes of one config.initialize_firebase call: with an app registered
\* only firestore.client() runs; otherwise credentials.Certificate and
\* firebase_admin.initialize_app run first and either may raise
CreateOutcomes(appsNow) ==
    IF appsNow THEN {"client_error", "ok"}
    ELSE {"cert_error", "app_error", "client_error", "ok"}

\* the registration step (Certificate + initialize_app) is executed
RunsRegistration_NoCheck(appsNow, o) == TRUE
RunsRegistration(appsNow, o) == ~appsNow

\* the registration step completed, so the app is in firebase_admin._apps
Registers(appsNow, o) ==
    RunsRegistration(appsNow, o) /\ o \in {"client_error", "ok"}

----------------------------------------------------------------------------
(* firebase_client.py *)

\* max_retries = 3, set alike in _initialize and in _safe_operation
max_retries == 3

\* time.sleep(2 ** attempt)
InitDelay_Linear(a) == 2 * a
InitDelay(a) == 2 ^ a

\* if attempt == max_retries - 1: raise
InitLastAttempt_Off(a) == a = max_retries
InitLastAttempt(a) == a = max_retries - 1

\* bare `raise` inside the except block re-raises the exception just caught
Reraise_First(errs) == errs[1]
Reraise(errs) == errs[Len(errs)]

\* self.client = config.initialize_firebase(): assigned only on return
ClientAfterCreate_Early(cur, o) ==
    IF o = "ok" THEN FirestoreClient
    ELSE IF o = "client_error" THEN PartialClient ELSE cur
ClientAfterCreate(cur, o) == IF o = "ok" THEN FirestoreClient ELSE cur

\* if not self.client
NotClient_Never(c) == FALSE
NotClient(c) == c = None

\* time.sleep(0.5 * (attempt + 1)) in half units; the source text ends inside
\* this expression, the documented delays are 0.5 and 1
SafeOpDelay(a) == a + 1

\* if attempt == max_retries - 1: raise
OpLastAttempt_Early(a) == a = max_retries - 2
OpLastAttempt(a) == a = max_retries - 1

\* bare `raise`: the exception the operation just raised, as it is
OpReraise_Wrapped(errs) ==
    [kind |-> "RemoteOperationError", attempt |-> errs[Len(errs)].attempt]
OpReraise(errs) == errs[Len(errs)]

\* outcomes of one invocation of the operation
OpOutcomes == {"ok", "Unavailable", "DeadlineExceeded"}

Init ==
    /\ pc = "import"
    /\ env \in Environments
    /\ configError = NoMsg
    /\ exchanges = <<>>
    /\ exchanges0 = <<>>
    /\ lookup = NoLookup
    /\ apps = FALSE
    /\ regRuns = 0
    /\ appRegs = 0
    /\ client = None
    /\ attempt = 0
    /\ initCalls = 0
    /\ initErrors = <<>>
    /\ initSleeps = <<>>
    /\ initResult = "none"
    /\ raised = NoError
    /\ created = {}
    /\ opsStarted = 0
    /\ opHandle = None
    /\ opCalls = 0
    /\ opErrors = <<>>
    /\ opSleeps = <<>>
    /\ opOutcome = "none"
    /\ opRaised = NoError

\* config = ConfigManager(): _validate_environment, then the attributes
ConfigConstruct ==
    /\ pc = "import"
    /\ IF missing(env) # <<>>
       THEN /\ configError' = error_msg(env)
            /\ pc' = "config_failed"
            /\ UNCHANGED <<exchanges, exchanges0>>
       ELSE /\ exchanges' = BuildExchanges(env)
            /\ exchanges0' = BuildExchanges(env)
            /\ pc' = "configured"
            /\ UNCHANGED configError
    /\ UNCHANGED <<env, lookup, attempt>>
    /\ UNCHANGED initVars
    /\ UNCHANGED opVars

\* config.get_exchange_config(exchange_name)
GetExchangeConfig ==
    /\ pc \in {"configured", "idle"}
    /\ \E n \in ExchangeNames : lookup' = get_exchange_config(exchanges, n)
    /\ UNCHANGED <<pc, attempt>>
    /\ UNCHANGED configVars
    /\ UNCHANGED initVars
    /\ UNCHANGED opVars

\* FirebaseClient(): self.client = None, then _initialize enters its loop
ClientConstruct ==
    /\ pc = "configured"
    /\ client' = None
    /\ attempt' = 0
    /\ pc' = "init_try"
    /\ UNCHANGED <<lookup, apps, regRuns, appRegs, initCalls, initErrors, initSleeps,
                   initResult, raised, created>>
    /\ UNCHANGED configVars
    /\ UNCHANGED opVars

\* one iteration of the loop of _initialize up to its return, raise or sleep
InitAttempt ==
    /\ pc = "init_try"
    /\ \E o \in CreateOutcomes(apps) :
        /\ initCalls' = initCalls + 1
        /\ regRuns' = IF RunsRegistration(apps, o) THEN regRuns + 1 ELSE regRuns
        /\ appRegs' = IF Registers(apps, o) THEN appRegs + 1 ELSE appRegs
        /\ apps' = (apps \/ Registers(apps, o))
        /\ client' = ClientAfterCreate(client, o)
        /\ IF o = "ok"
           THEN /\ created' = created \cup {FirestoreClient}
                /\ initResult' = "returned"
                /\ pc' = "idle"
                /\ UNCHANGED <<initErrors, raised>>
           ELSE /\ initErrors' = Append(initErrors, [kind |-> o, attempt |-> attempt])
                /\ UNCHANGED created
                /\ IF InitLastAttempt(attempt)
                   THEN /\ raised' = Reraise(initErrors')
                        /\ initResult' = "raised"
                        /\ pc' = "idle"
                   ELSE /\ pc' = "init_sleep"
                        /\ UNCHANGED <<raised, initResult>>
    /\ UNCHANGED <<lookup, attempt, initSleeps>>
    /\ UNCHANGED configVars
    /\ UNCHANGED opVars

\* time.sleep(2 ** attempt), then the next iteration; a loop that runs out
\* of iterations ends the function normally
InitSleep ==
    /\ pc = "init_sleep"
    /\ initSleeps' = Append(initSleeps, InitDelay(attempt))
    /\ attempt' = attempt + 1
    /\ IF attempt + 1 < max_retries
       THEN pc' = "init_try" /\ UNCHANGED initResult
       ELSE pc' = "idle" /\ initResult' = "returned"
    /\ UNCHANGED <<lookup, apps, regRuns, appRegs, client, initCalls, initErrors,
                   raised, created>>
    /\ UNCHANGED configVars
    /\ UNCHANGED opVars

\* _safe_operation(operation): the handle check and the entry of the loop.
\* The method is called on the instance once __init__ has ended, also when
\* __init__ ended by raising and left self.client = None.
SafeOpCall ==
    /\ pc = "idle"
    /\ opsStarted < MaxOps
    /\ opsStarted' = opsStarted + 1
    /\ opHandle' = client
    /\ opCalls' = 0
    /\ opErrors' = <<>>
    /\ opSleeps' = <<>>
    /\ attempt' = 0
    /\ IF NotClient(client)
       THEN /\ opOutcome' = "raised"
            /\ opRaised' = NotInitialized
            /\ pc' = "idle"
       ELSE /\ opOutcome' = "running"
            /\ opRaised' = NoError
            /\ pc' = "op_try"
    /\ UNCHANGED lookup
    /\ UNCHANGED configVars
    /\ UNCHANGED initVars

\* one iteration of the loop of _safe_operation up to its return, raise or
\* sleep; self.client is not assigned.  SafeOpAttempt_Reconnect differs in
\* dropping the handle and re-entering _initialize when attempts run out.
SafeOpAttempt_Reconnect ==
    /\ pc = "op_try"
    /\ \E o \in OpOutcomes :
        /\ opCalls' = opCalls + 1
        /\ IF o = "ok"
           THEN /\ opOutcome' = "returned"
                /\ pc' = "idle"
                /\ UNCHANGED <<opErrors, opRaised, client, attempt>>
           ELSE /\ opErrors' = Append(opErrors, [kind |-> o, attempt |-> attempt])
                /\ IF OpLastAttempt(attempt)
                   THEN /\ opRaised' = OpReraise(opErrors')
                        /\ opOutcome' = "raised"
                        /\ client' = None
                        /\ attempt' = max_retries - 1
                        /\ pc' = "init_try"
                   ELSE /\ pc' = "op_sleep"
                        /\ UNCHANGED <<opRaised, opOutcome, client, attempt>>
    /\ UNCHANGED <<lookup, opsStarted, opHandle, opSleeps>>
    /\ UNCHANGED <<apps, regRuns, appRegs, initCalls, initErrors, initSleeps,
                   initResult, raised, created>>
    /\ UNCHANGED configVars
SafeOpAttempt ==
    /\ pc = "op_try"
    /\ \E o \in OpOutcomes :
        /\ opCalls' = opCalls + 1
        /\ IF o = "ok"
           THEN /\ opOutcome' = "returned"
                /\ pc' = "idle"
                /\ UNCHANGED <<opErrors, opRaised>>
           ELSE /\ opErrors' = Append(opErrors, [kind |-> o, attempt |-> attempt])
                /\ IF OpLastAttempt(attempt)
                   THEN /\ opRaised' = OpReraise(opErrors')
                        /\ opOutcome' = "raised"
                        /\ pc' = "idle"
                   ELSE /\ pc' = "op_sleep"
                        /\ UNCHANGED <<opRaised, opOutcome>>
    /\ UNCHANGED <<lookup, attempt, opsStarted, opHandle, opSleeps>>
    /\ UNCHANGED configVars
    /\ UNCHANGED initVars

\* time.sleep(0.5 * (attempt + 1)), then the next iteration; a loop that
\* runs out of iterations ends the function, returning None
SafeOpSleep ==
    /\ pc = "op_sleep"
    /\ opSleeps' = Append(opSleeps, SafeOpDelay(attempt))
    /\ attempt' = attempt + 1
    /\ IF attempt + 1 < max_retries
       THEN pc' = "op_try" /\ UNCHANGED opOutcome
       ELSE pc' = "idle" /\ opOutcome' = "returned"
    /\ UNCHANGED <<lookup, opsStarted, opHandle, opCalls, opErrors, opRaised>>
    /\ UNCHANGED configVars
    /\ UNCHANGED initVars

Next ==
    \/ ConfigConstruct
    \/ GetExchangeConfig
    \/ ClientConstruct
    \/ InitAttempt
    \/ InitSleep
    \/ SafeOpCall
    \/ SafeOpAttempt
    \/ SafeOpSleep

Spec == Init /\ [][Next]_vars

----------------------------------------------------------------------------
(* Properties *)

\* C1: when handle creation fails on the first two attempts and succeeds on
\* the third, _initialize returns normally after exactly 3 creation attempts
\* with the handle set to the created client, having slept 1 then 2 time
\* units (3 in total) and nothing after the success.
C1_FailTwiceThenSucceed ==
    (initResult = "returned" /\ Len(initErrors) = 2) =>
        /\ initCalls = 3
        /\ client = FirestoreClient
        /\ client \in created
        /\ initSleeps = <<1, 2>>
        /\ Sum(initSleeps) = 3
        /\ raised = NoError

C1_Witness ==
    /\ pc = "idle"
    /\ initResult = "returned"
    /\ Len(initErrors) = 2
    /\ opsStarted = 0

\* C2: when every handle-creation attempt fails, _initialize makes exactly 3
\* attempts, raises the error of the third attempt and not an earlier one,
\* and the handle is None; no initialization makes more than 3 attempts.
C2_ExhaustRaisesLast ==
    /\ initCalls <= 3
    /\ (initResult # "none" /\ created = {}) =>
        /\ initResult = "raised"
        /\ initCalls = 3
        /\ Len(initErrors) = 3
        /\ raised = initErrors[3]
        /\ raised.attempt = 2
        /\ client = None

C2_Witness ==
    /\ initResult = "raised"
    /\ initErrors[1].kind = "cert_error"
    /\ initErrors[3].kind = "client_error"
    /\ raised.kind = "client_error"

\* C3: a _safe_operation call made while the handle is None ends at once
\* with the "not initialized" ConnectionError, never invokes the operation
\* and never sleeps.
C3_NotInitializedFailsFast ==
    (opsStarted > 0 /\ opHandle = None) =>
        /\ pc = "idle"
        /\ opOutcome = "raised"
        /\ opRaised = NotInitialized
        /\ opCalls = 0
        /\ opErrors = <<>>
        /\ opSleeps = <<>>

C3_Witness ==
    /\ opsStarted > 0
    /\ opHandle = None
    /\ created = {}
    /\ opOutcome = "raised"

C5_MissingVariablesNamed ==
    pc # "import" =>
        LET M == {v \in Range(required_vars) : env[v] \in {Unset, ""}}
        IN  /\ (pc = "config_failed") <=> (M # {})
            /\ (configError # NoMsg) <=> (M # {})
            /\ (M # {}) =>
                /\ configError[1] = "Missing required environment variables:"
                /\ Range(configError[2]) = M
                /\ Len(configError[2]) = Cardinality(M)

C5_Witness ==
    /\ pc = "config_failed"
    /\ configError # NoMsg
    /\ configError[2] = <<"FIREBASE_PROJECT_ID">>

\* C6: get_exchange_config returns exactly the mapping stored at construction
\* for binance and coinbase, fails with a "not configured" error naming the
\* requested exchange for every other name, and leaves the stored mappings
\* as construction built them.
C6_ExchangeLookup ==
    /\ pc \notin {"import", "config_failed"} => exchanges = exchanges0
    /\ lookup.status # "none" =>
        IF lookup.name \in {"binance", "coinbase"}
        THEN /\ lookup.status = "ok"
             /\ lookup.value = exchanges0[lookup.name]
        ELSE /\ lookup.status = "ValueError"
             /\ lookup.msg = <<"Exchange", lookup.name, "not configured">>

C6_Witness ==
    /\ lookup.status = "ok"
    /\ lookup.name = "binance"
    /\ env["BINANCE_TESTNET"] = "TRUE"
    /\ lookup.value.testnet = TRUE
    /\ lookup.value.api_key = ""

\* C7: in every state, between retry attempts and after failed attempts
\* included, the handle is None or a client returned by a creation attempt
\* that completed; while no attempt has completed it is None.
C7_HandleAbsentOrCreated ==
    /\ client = None \/ client \in created
    /\ created = {} => client = None
    /\ pc \in {"init_try", "init_sleep"} => client = None

C7_Witness ==
    /\ pc = "init_sleep"
    /\ Len(initErrors) = 2
    /\ initErrors[1].kind = "client_error"
    /\ client = None

\* C8: once the handle is present it is never cleared or replaced, and no
\* further handle-creation attempt is made, whatever _safe_operation does.
C8_ReadyIsTerminal ==
    [][client # None =>
        /\ client' = client
        /\ initCalls' = initCalls
        /\ pc' \notin {"init_try", "init_sleep"}]_vars

C8_Witness ==
    /\ client = FirestoreClient
    /\ opHandle = FirestoreClient
    /\ opOutcome = "raised"
    /\ opCalls = 3
    /\ opsStarted = MaxOps

\* C9 as stated: an initialization in which all attempts fail waits delays of
\* 1, 2 and 4 time units.
C9_Original ==
    (initResult = "raised" /\ created = {}) => initSleeps = <<1, 2, 4>>

\* C9 as amended: the i-th delay of _initialize is 2^(i-1) and follows the
\* failed attempt number i-1 only when another attempt follows, so an
\* initialization in which all 3 attempts fail waits 1 and 2 time units and
\* raises without a delay of 4.
C9_BackoffBeforeNextAttempt ==
    /\ \A i \in 1..Len(initSleeps) : initSleeps[i] = 2 ^ (i - 1)
    /\ Len(initSleeps) <= 2
    /\ pc = "init_sleep" => Len(initSleeps) = Len(initErrors) - 1
    /\ pc = "init_try" => Len(initSleeps) = Len(initErrors)
    /\ initResult = "returned" => Len(initSleeps) = Len(initErrors)
    /\ initResult = "raised" => initSleeps = <<1, 2>>

C9_Witness ==
    /\ initResult = "raised"
    /\ Len(initErrors) = 3
    /\ initSleeps = <<1, 2>>

\* C10: the registration step (credential load + initialize_app) runs only
\* while no app is registered, so once an attempt has registered the app the
\* later attempts only retry firestore.client(), and the app is registered at
\* most once.
C10_RegisterAtMostOnce ==
    /\ [](appRegs <= 1)
    /\ [](apps <=> appRegs = 1)
    /\ [][regRuns' # regRuns => (~apps /\ regRuns' = regRuns + 1)]_vars

C10_Witness ==
    /\ initCalls = 3
    /\ initErrors # <<>>
    /\ initErrors[1].kind = "client_error"
    /\ appRegs = 1
    /\ regRuns = 1

====
